---- MODULE Spec2Model ----
(***************************************************************************)
(* image_dds: the surface layout engine of src/image_dds/src/lib.rs.       *)
(*                                                                         *)
(* Three specifications share this module:                                 *)
(*   SpecDim  calls the pure layout functions mip_dimension and            *)
(*            max_mipmap_count on 32-bit inputs;                           *)
(*   SpecEnc  runs encode_surface_rgba8, one action per step of its body   *)
(*            (validation, base level, one loop iteration, return);        *)
(*   SpecDec  runs decode_surface_rgba8, one action per (layer, mipmap)    *)
(*            iteration and one for the return.                            *)
(*                                                                         *)
(* A call ends in one of three ways: Ok, Err (a typed error value) or      *)
(* Panic (a Rust panic: unwrap of None, index out of range, arithmetic     *)
(* overflow under overflow checks).                                        *)
(***************************************************************************)
EXTENDS Integers, Sequences, FiniteSets, TLC

VARIABLES
    \* ---- SpecDim: one call of a pure function
    arg,                \* [dim, level, checks]: the arguments and the build's overflow checks
    ret,                \* the value returned, or the panic
    \* ---- SpecEnc: encode_surface_rgba8
    surface,            \* the SurfaceRgba8 argument
    format,             \* the ImageFormat argument
    quality,            \* the Quality argument
    mipmaps,            \* the Mipmaps argument (the policy)
    pc,                 \* position in the body of encode_surface_rgba8
    num_mipmaps,        \* local num_mipmaps
    mipmap,             \* loop variable of `for mipmap in 1..num_mipmaps`
    mip_image,          \* local mip_image: the pixel buffer of the current level
    surface_data,       \* local surface_data: the encoded levels appended so far
    result,             \* what encode_surface_rgba8 returned
    \* ---- SpecDec: decode_surface_rgba8
    dec_surface,        \* the Surface argument (its data kept as a length)
    dec_pc,             \* position in the body of decode_surface_rgba8
    layer,              \* loop variable of `for layer in 0..layers`
    dec_mipmap,         \* loop variable of `for mipmap in 0..mipmaps`
    combined_surface_data, \* local combined_surface_data: the decoded levels so far
    dec_result,         \* what decode_surface_rgba8 returned
    \* ---- the build
    overflow_checks,    \* "either": not yet observed; "off": an overflow has wrapped
    usize_bits          \* the width of usize on the target

vars == <<arg, ret, surface, format, quality, mipmaps, pc, num_mipmaps, mipmap,
          mip_image, surface_data, result, dec_surface, dec_pc, layer, dec_mipmap,
          combined_surface_data, dec_result, overflow_checks, usize_bits>>

dimVars == <<arg, ret>>
encVars == <<surface, format, quality, mipmaps, pc, num_mipmaps, mipmap,
             mip_image, surface_data, result>>
decVars == <<dec_surface, dec_pc, layer, dec_mipmap, combined_surface_data, dec_result>>

-----------------------------------------------------------------------------
(* Bounds of the model *)

\* widths and heights of the surfaces encoded are 0..MaxDim
MaxDim == 5
\* depths drawn are 0..MaxDepth
MaxDepth == 2
\* GeneratedExact(n) is drawn with n in 0..MaxExact, and n = u32::BITS + 1
MaxExact == 3
\* the mip count a surface declares is drawn from 0..MaxDeclared (and u32::BITS + 1 when decoding)
MaxDeclared == 3
\* layer counts drawn are 0..MaxLayers
MaxLayers == 2
\* widths and heights of the surfaces decoded are 0..MaxDecDim
MaxDecDim == 4
\* mip_dimension and max_mipmap_count are called on 0..MaxProbe and on the powers of two
\* (and their neighbours) up to u32::MAX
MaxProbe == 40
\* mip_dimension is called with levels 0..MaxLevel
MaxLevel == 34
\* downsample_rgba8 is called with widths and heights 0..MaxDownDim
MaxDownDim == 4
\* downsample_rgba8 is called with depths 0..MaxDownDepth
MaxDownDepth == 2
\* calculate_offset is called with layers 0..MaxOffLayer
MaxOffLayer == 2
\* calculate_offset is called with 0..MaxOffMips levels per layer (and u32::BITS + 1),
\* and with mip indices up to one past MaxOffMips
MaxOffMips == 4

-----------------------------------------------------------------------------
(* Machine integers *)

\* u32::BITS
U32Bits == 32

Max(a, b) == IF a >= b THEN a ELSE b

RECURSIVE SumSeq(_)
SumSeq(s) == IF s = <<>> THEN 0 ELSE Head(s) + SumSeq(Tail(s))

\* x >> n on u32 when n < u32::BITS (an amount of 31 or more leaves 0 of any
\* value below 2^31, the largest this model holds)
Shr(x, n) == IF n >= U32Bits - 1 THEN 0 ELSE x \div (2^n)

\* Every value of this model is below 2^31. On a target whose usize has 32 or 64
\* bits all of them fit; a narrower word (bits < 31) is a scale model of the
\* overflow cases.
usize_fits(n, bits) == IF bits >= U32Bits - 1 THEN TRUE ELSE n <= 2^bits - 1

\* usize arithmetic without overflow checks wraps
usize_wrap(n, bits) == IF bits >= U32Bits - 1 THEN n ELSE n % (2^bits)

-----------------------------------------------------------------------------
(* Layout calculator: mip_dimension, max_mipmap_count *)

\* the number of bits up to and including the highest set bit
RECURSIVE bit_length(_)
bit_length(x) == IF x = 0 THEN 0 ELSE 1 + bit_length(x \div 2)

\* u32::leading_zeros: the number of zero bits above the highest set bit
leading_zeros(x) == U32Bits - bit_length(x)

\* a plausible slip: log2(x) without the + 1
max_mipmap_count_log2_only(max_dimension) == Max((U32Bits - 1) - leading_zeros(max_dimension), 0)

\* fn max_mipmap_count: u32::BITS - max_dimension.leading_zeros()
max_mipmap_count(max_dimension) == U32Bits - leading_zeros(max_dimension)

\* `dim >> mipmap` overflows when the shift amount is not below u32::BITS
shift_overflows(mipmap_) == mipmap_ >= U32Bits

\* fn mip_dimension: (dim >> mipmap).max(1). The value is the one the build
\* returns when it does not panic: without overflow checks the shift amount is
\* masked to its low 5 bits (mipmap % 32); for mipmap < 32 the two agree.
mip_dimension(dim, mipmap_) == Max(Shr(dim, mipmap_ % U32Bits), 1)

\* with overflow checks `dim >> mipmap` panics on a shift amount >= 32
mip_dimension_panics(mipmap_, checks) == checks /\ shift_overflows(mipmap_)

-----------------------------------------------------------------------------
(* Format catalog: impl ImageFormat *)

BcnFormats ==
    {"BC1Unorm", "BC1Srgb", "BC2Unorm", "BC2Srgb", "BC3Unorm", "BC3Srgb",
     "BC4Unorm", "BC4Snorm", "BC5Unorm", "BC5Snorm", "BC6Ufloat", "BC6Sfloat",
     "BC7Unorm", "BC7Srgb"}

UncompressedFormats ==
    {"R8Unorm", "R8G8B8A8Unorm", "R8G8B8A8Srgb", "R32G32B32A32Float",
     "B8G8R8A8Unorm", "B8G8R8A8Srgb"}

\* fn block_dimensions
block_dimensions(f) ==
    CASE f \in BcnFormats -> <<4, 4, 1>>
      [] f \in UncompressedFormats -> <<1, 1, 1>>

\* fn block_size_in_bytes
block_size_in_bytes(f) ==
    CASE f = "R8Unorm" -> 1
      [] f \in {"R8G8B8A8Unorm", "R8G8B8A8Srgb", "B8G8R8A8Unorm", "B8G8R8A8Srgb"} -> 4
      [] f = "R32G32B32A32Float" -> 16
      [] f \in {"BC1Unorm", "BC1Srgb", "BC4Unorm", "BC4Snorm"} -> 8
      [] f \in {"BC2Unorm", "BC2Srgb", "BC3Unorm", "BC3Srgb", "BC5Unorm", "BC5Snorm",
                "BC6Ufloat", "BC6Sfloat", "BC7Unorm", "BC7Srgb"} -> 16

-----------------------------------------------------------------------------
(* Layout calculator: div_round_up, mip_size, calculate_offset *)

\* `x + d - 1` does not fit usize: a panic under overflow checks, a wrap without
div_round_up_overflows(x, d, bits) == ~usize_fits(x + d - 1, bits)

\* fn div_round_up: (x + d - 1) / d in usize arithmetic (the value when it does
\* not panic)
div_round_up(x, d, bits) == usize_wrap(x + d - 1, bits) \div d

None == [some |-> FALSE]
Some(v) == [some |-> TRUE, val |-> v]

\* a.checked_mul(b) on Option<usize>
checked_mul(a, b, bits) ==
    IF ~a.some THEN None
    ELSE IF usize_fits(a.val * b, bits) THEN Some(a.val * b) ELSE None

\* fn mip_size: the block-rounded byte size of one level, None on overflow.
\* dims = (width, height, depth), block = (block_width, block_height, block_depth)
mip_size(dims, block, block_bytes, bits) ==
    checked_mul(
        checked_mul(
            checked_mul(Some(div_round_up(dims[1], block[1], bits)),
                        div_round_up(dims[2], block[2], bits), bits),
            div_round_up(dims[3], block[3], bits), bits),
        block_bytes, bits)

\* fn mip_size panics: one of its three div_round_up calls overflows under
\* overflow checks
mip_size_panics(dims, block, checks, bits) ==
    checks /\ \E a \in 1..3 : div_round_up_overflows(dims[a], block[a], bits)

\* the dimensions of level i: mip_dimension of each base dimension
mip_dimensions(dimensions, i) ==
    <<mip_dimension(dimensions[1], i), mip_dimension(dimensions[2], i), mip_dimension(dimensions[3], i)>>

\* the Option<usize> sizes calculate_offset maps over 0..mipmaps_per_layer
mip_size_options(dimensions, block, block_bytes, mipmaps_per_layer, bits) ==
    [i \in 1..mipmaps_per_layer |-> mip_size(mip_dimensions(dimensions, i - 1), block, block_bytes, bits)]

\* fn calculate_offset panics: a shift overflow in mip_dimension under overflow
\* checks, the unwrap of an overflowed mip_size, the slice mip_sizes[0..mipmap]
\* with mipmap > mipmaps_per_layer, or a sum or product that overflows usize
\* under overflow checks
calculate_offset_panics(layer_, mipmap_, dimensions, block, block_bytes, mipmaps_per_layer, checks, bits) ==
    LET opts == mip_size_options(dimensions, block, block_bytes, mipmaps_per_layer, bits)
    IN  \/ (checks /\ \E i \in 1..mipmaps_per_layer : shift_overflows(i - 1))
        \/ \E i \in 1..mipmaps_per_layer : mip_size_panics(mip_dimensions(dimensions, i - 1), block, checks, bits)
        \/ \E i \in 1..mipmaps_per_layer : ~opts[i].some
        \/ mipmap_ > mipmaps_per_layer
        \/ LET mip_sizes == [i \in 1..mipmaps_per_layer |-> IF opts[i].some THEN opts[i].val ELSE 0]
               layer_size == SumSeq(mip_sizes)
           IN  checks /\ mipmap_ <= mipmaps_per_layer
                      /\ \/ ~usize_fits(layer_size, bits)
                         \/ ~usize_fits(layer_ * layer_size, bits)
                         \/ ~usize_fits(layer_ * layer_size + SumSeq(SubSeq(mip_sizes, 1, mipmap_)), bits)

\* fn calculate_offset: layer * (sum of all level sizes) + (sum of the sizes of
\* levels 0..mipmap), in usize arithmetic (wrapping when it does not panic)
calculate_offset(layer_, mipmap_, dimensions, block, block_bytes, mipmaps_per_layer, bits) ==
    LET opts == mip_size_options(dimensions, block, block_bytes, mipmaps_per_layer, bits)
        mip_sizes == [i \in 1..mipmaps_per_layer |-> opts[i].val]
        layer_size == usize_wrap(SumSeq(mip_sizes), bits)
        layer_offset == usize_wrap(layer_ * layer_size, bits)
        mip_offset == usize_wrap(SumSeq(SubSeq(mip_sizes, 1, mipmap_)), bits)
    IN  usize_wrap(layer_offset + mip_offset, bits)

-----------------------------------------------------------------------------
(* Results *)

Ok(v) == [tag |-> "Ok", val |-> v]
Err(e) == [tag |-> "Err", err |-> e]
Panic(why) == [tag |-> "Panic", why |-> why]
Pending == [tag |-> "Pending"]

NonIntegralDimensionsInBlocks(w, h, d, bw, bh) == [kind |-> "NonIntegralDimensionsInBlocks", width |-> w, height |-> h, depth |-> d, block_width |-> bw, block_height |-> bh]
NotEnoughData(expected, actual) == [kind |-> "NotEnoughData", expected |-> expected, actual |-> actual]
UnsupportedFormat(f) == [kind |-> "UnsupportedFormat", format |-> f]
InvalidDimensions(w, h, d) == [kind |-> "InvalidDimensions", width |-> w, height |-> h, depth |-> d]

-----------------------------------------------------------------------------
(* The per-format codecs (bcn.rs, rgba.rs) and SurfaceRgba8::get_image_data  *)
(* (surface.rs) are not among the source files: they are modelled from the   *)
(* specification (sections 3, 4.1, 4.4, 7).                                  *)

\* One encoded level. The bytes a codec writes are its own business; the model
\* keeps what decides them (codec, dimensions, the pixels read, quality) and
\* their number, the block-rounded size of the level.
EncodedLevel(codec, f, width, height, depth, data, quality_, bits) ==
    [codec |-> codec, width |-> width, height |-> height, depth |-> depth,
     pixels |-> SubSeq(data, 1, width * height * depth * 4), quality |-> quality_,
     len |-> mip_size(<<width, height, depth>>, block_dimensions(f), block_size_in_bytes(f), bits).val]

\* encode_block (spec 4.1, 7): no encoder for the BC2 family; zero-sized
\* dimensions are invalid; the buffer must hold width x height x depth RGBA8 pixels
encode_block(codec, f, width, height, depth, data, quality_, bits) ==
    IF codec = "Bc2" THEN Err(UnsupportedFormat(f))
    ELSE IF width = 0 \/ height = 0 \/ depth = 0 THEN Err(InvalidDimensions(width, height, depth))
    ELSE IF Len(data) < width * height * depth * 4 THEN Err(NotEnoughData(width * height * depth * 4, Len(data)))
    ELSE Ok(EncodedLevel(codec, f, width, height, depth, data, quality_, bits))

\* decode_block (spec 4.1): requires the block-rounded size of the level, and
\* yields width x height x depth RGBA8 pixels. `available` is the length of the
\* slice handed to it.
decode_block(codec, f, width, height, depth, available, bits) ==
    LET need == mip_size(<<width, height, depth>>, block_dimensions(f), block_size_in_bytes(f), bits).val
    IN  IF available < need THEN Err(NotEnoughData(need, available))
        ELSE Ok([codec |-> codec, width |-> width, height |-> height, depth |-> depth, len |-> width * height * depth * 4])

\* SurfaceRgba8::get_image_data(layer, mipmap) -> Option<&[u8]> (spec 4.4: "slicing
\* the caller's own declared per-level data"): the level's slice of the tightly
\* packed RGBA8 buffer, None when the surface does not declare or hold it
get_image_data(s, layer_, mipmap_, bits) ==
    IF layer_ >= s.layers \/ mipmap_ >= s.mipmaps THEN None
    ELSE LET dims == <<s.width, s.height, s.depth>>
             offset == calculate_offset(layer_, mipmap_, dims, <<1, 1, 1>>, 4, s.mipmaps, bits)
             size == mip_size(mip_dimensions(dims, mipmap_), <<1, 1, 1>>, 4, bits)
         IN  IF ~size.some \/ offset + size.val > Len(s.data) THEN None
             ELSE Some(SubSeq(s.data, offset + 1, offset + size.val))

-----------------------------------------------------------------------------
(* Codec dispatch: fn encode_rgba8, fn decode_data_rgba8 *)

\* the codec family the match on the format selects when encoding
encode_codec(f) ==
    CASE f \in {"BC1Unorm", "BC1Srgb"} -> "Bc1"
      [] f \in {"BC2Unorm", "BC2Srgb"} -> "Bc2"
      [] f \in {"BC3Unorm", "BC3Srgb"} -> "Bc3"
      [] f \in {"BC4Unorm", "BC4Snorm"} -> "Bc4"
      [] f \in {"BC5Unorm", "BC5Snorm"} -> "Bc5"
      [] f \in {"BC6Ufloat", "BC6Sfloat"} -> "Bc6"
      [] f \in {"BC7Unorm", "BC7Srgb"} -> "Bc7"
      [] f = "R8Unorm" -> "r8_from_rgba8"
      [] f \in {"R8G8B8A8Unorm", "R8G8B8A8Srgb"} -> "encode_rgba8_from_rgba8"
      [] f = "R32G32B32A32Float" -> "rgbaf32_from_rgba8"
      [] f \in {"B8G8R8A8Unorm", "B8G8R8A8Srgb"} -> "bgra8_from_rgba8"

\* fn encode_rgba8
encode_rgba8(width, height, depth, data, f, quality_, bits) ==
    encode_block(encode_codec(f), f, width, height, depth, data, quality_, bits)

\* the codec family the match on the format selects when decoding
decode_codec(f) ==
    CASE f \in {"BC1Unorm", "BC1Srgb"} -> "Bc1"
      [] f \in {"BC2Unorm", "BC2Srgb"} -> "Bc2"
      [] f \in {"BC3Unorm", "BC3Srgb"} -> "Bc3"
      [] f \in {"BC4Unorm", "BC4Snorm"} -> "Bc4"
      [] f \in {"BC5Unorm", "BC5Snorm"} -> "Bc5"
      [] f \in {"BC6Ufloat", "BC6Sfloat"} -> "Bc6"
      [] f \in {"BC7Unorm", "BC7Srgb"} -> "Bc7"
      [] f = "R8Unorm" -> "rgba8_from_r8"
      [] f \in {"R8G8B8A8Unorm", "R8G8B8A8Srgb"} -> "decode_rgba8_from_rgba8"
      [] f = "R32G32B32A32Float" -> "rgba8_from_rgbaf32"
      [] f \in {"B8G8R8A8Unorm", "B8G8R8A8Srgb"} -> "rgba8_from_bgra8"

\* fn decode_data_rgba8
decode_data_rgba8(width, height, depth, f, available, bits) ==
    decode_block(decode_codec(f), f, width, height, depth, available, bits)

-----------------------------------------------------------------------------
(* Downsampler: fn downsample_rgba8 *)

\* the source voxel (x*2 + x2, y*2 + y2, z*2 + z2) lies inside the source extent
tap_inside(width, height, depth, x, y, z, t) ==
    /\ (z * 2) + t[3] < depth
    /\ (y * 2) + t[2] < height
    /\ (x * 2) + t[1] < width

\* index = sampled_z * width * height + sampled_y * width + sampled_x
tap_index(width, height, x, y, z, t) ==
    (((z * 2) + t[3]) * width * height) + (((y * 2) + t[2]) * width) + ((x * 2) + t[1])

\* the 2x2x2 neighbourhood in the order of the loops over z2, y2, x2
Taps == <<<<0, 0, 0>>, <<1, 0, 0>>, <<0, 1, 0>>, <<1, 1, 0>>, <<0, 0, 1>>, <<1, 0, 1>>, <<0, 1, 1>>, <<1, 1, 1>>>>

\* a plausible slip: the mean rounded to nearest instead of truncated
downsample_voxel_rounded(width, height, depth, data, x, y, z, c) ==
    LET inside == [k \in 1..8 |-> tap_inside(width, height, depth, x, y, z, Taps[k])]
        sum == SumSeq([k \in 1..8 |-> IF inside[k] THEN data[tap_index(width, height, x, y, z, Taps[k]) * 4 + c + 1] ELSE 0])
        count == SumSeq([k \in 1..8 |-> IF inside[k] THEN 1 ELSE 0])
    IN  IF count = 0 THEN 0 ELSE ((2 * sum) + count) \div (2 * count)

\* one channel of one destination voxel: (sum as f64 / count as f64) as u8.
\* The quotient of two small integers truncates to their integer quotient, and
\* 0.0 / 0.0 (no source voxel inside the extent) is NaN, which casts to 0.
downsample_voxel(width, height, depth, data, x, y, z, c) ==
    LET inside == [k \in 1..8 |-> tap_inside(width, height, depth, x, y, z, Taps[k])]
        sum == SumSeq([k \in 1..8 |-> IF inside[k] THEN data[tap_index(width, height, x, y, z, Taps[k]) * 4 + c + 1] ELSE 0])
        count == SumSeq([k \in 1..8 |-> IF inside[k] THEN 1 ELSE 0])
    IN  IF count = 0 THEN 0 ELSE sum \div count

\* a plausible slip: halving rounded up
downsample_dimensions_round_up(width, height, depth, min_width, min_height, min_depth) ==
    <<Max((width + 1) \div 2, min_width), Max((height + 1) \div 2, min_height), Max((depth + 1) \div 2, min_depth)>>

\* the output dimensions: (width / 2).max(min_width), ...
downsample_dimensions(width, height, depth, min_width, min_height, min_depth) ==
    <<Max(width \div 2, min_width), Max(height \div 2, min_height), Max(depth \div 2, min_depth)>>

\* data[index * 4 + c] is out of range for some source voxel the loops read
downsample_rgba8_panics(width, height, depth, min_width, min_height, min_depth, data) ==
    LET n == downsample_dimensions(width, height, depth, min_width, min_height, min_depth)
    IN  \E z \in 0..(n[3] - 1), y \in 0..(n[2] - 1), x \in 0..(n[1] - 1), k \in 1..8 :
            /\ tap_inside(width, height, depth, x, y, z, Taps[k])
            /\ tap_index(width, height, x, y, z, Taps[k]) * 4 + 3 >= Len(data)

\* fn downsample_rgba8: new_data[new_index * 4 + c] with
\* new_index = z * new_width * new_height + y * new_width + x
downsample_rgba8(width, height, depth, min_width, min_height, min_depth, data) ==
    LET n == downsample_dimensions(width, height, depth, min_width, min_height, min_depth)
    IN  [p \in 1..(n[1] * n[2] * n[3] * 4) |->
            LET new_index == (p - 1) \div 4
                c == (p - 1) % 4
                x == new_index % n[1]
                y == (new_index \div n[1]) % n[2]
                z == new_index \div (n[1] * n[2])
            IN  downsample_voxel(width, height, depth, data, x, y, z, c)]

-----------------------------------------------------------------------------
(* encode_surface_rgba8 *)

Disabled == [kind |-> "Disabled", count |-> 0]
FromSurface == [kind |-> "FromSurface", count |-> 0]
GeneratedExact(n) == [kind |-> "GeneratedExact", count |-> n]
GeneratedAutomatic == [kind |-> "GeneratedAutomatic", count |-> 0]

\* a plausible slip: && for ||
non_integral_dimensions_and(width, height, block) == width % block[1] /= 0 /\ height % block[2] /= 0

\* width % block_width != 0 || height % block_height != 0
non_integral_dimensions(width, height, block) == width % block[1] /= 0 \/ height % block[2] /= 0

\* let num_mipmaps = match mipmaps { ... }
resolve_num_mipmaps(policy, s) ==
    CASE policy.kind = "Disabled" -> 1
      [] policy.kind = "FromSurface" -> s.mipmaps
      [] policy.kind = "GeneratedExact" -> policy.count
      [] policy.kind = "GeneratedAutomatic" -> max_mipmap_count(Max(Max(s.width, s.height), s.depth))

\* mip_dimension(dim, mipmap).max(block_dim) of each dimension
padded_mip_dimensions(s, block, mipmap_) ==
    <<Max(mip_dimension(s.width, mipmap_), block[1]), Max(mip_dimension(s.height, mipmap_), block[2]), Max(mip_dimension(s.depth, mipmap_), block[3])>>

\* the indices i = z * mip_width * mip_height + y * mip_width + x of the padding loops
pad_indices(m) == {(z * m[1] * m[2]) + (y * m[1]) + x : x \in 0..(m[1] - 1), y \in 0..(m[2] - 1), z \in 0..(m[3] - 1)}

\* the zero padded copy: padded_data[i] = data[i] for every i of the loops
padded_data(m, data) ==
    [p \in 1..(m[1] * m[2] * m[3] * 4) |-> IF (p - 1) \in pad_indices(m) THEN data[p] ELSE 0]

\* The pixel buffer of level `mipmap`: the `mip_image = if use_surface { .. } else { .. }`
\* of the loop body. [panic, why, image].
next_mip_image(s, block, policy, mipmap_, previous, bits) ==
    LET m == padded_mip_dimensions(s, block, mipmap_)
    IN  IF policy = FromSurface
        THEN LET got == get_image_data(s, 0, mipmap_, bits)
                 expected_size == m[1] * m[2] * m[3] * 4
             IN  IF ~got.some THEN [panic |-> TRUE, why |-> "unwrap on None", image |-> <<>>]
                 ELSE IF Len(got.val) < expected_size
                      THEN IF \E i \in pad_indices(m) : i >= Len(got.val)
                           THEN [panic |-> TRUE, why |-> "index out of bounds", image |-> <<>>]
                           ELSE [panic |-> FALSE, why |-> "", image |-> padded_data(m, got.val)]
                      ELSE [panic |-> FALSE, why |-> "", image |-> got.val]
        ELSE IF downsample_rgba8_panics(m[1], m[2], m[3], block[1], block[2], block[3], previous)
             THEN [panic |-> TRUE, why |-> "index out of bounds", image |-> <<>>]
             ELSE [panic |-> FALSE, why |-> "", image |-> downsample_rgba8(m[1], m[2], m[3], block[1], block[2], block[3], previous)]

\* lines 329-352: the block check on the base width and height, then the level count
EncCheckDimensions ==
    /\ pc = "start"
    /\ LET block == block_dimensions(format)
       IN  IF non_integral_dimensions(surface.width, surface.height, block)
           THEN /\ result' = Err(NonIntegralDimensionsInBlocks(surface.width, surface.height, surface.depth, block[1], block[2]))
                /\ pc' = "done"
                /\ UNCHANGED num_mipmaps
           ELSE /\ num_mipmaps' = resolve_num_mipmaps(mipmaps, surface)
                /\ pc' = "base"
                /\ UNCHANGED result
    /\ UNCHANGED <<surface, format, quality, mipmaps, mipmap, mip_image, surface_data>>
    /\ UNCHANGED <<dimVars, decVars, overflow_checks, usize_bits>>

\* lines 354-368: the base level, each dimension clamped up to one block
EncBase ==
    /\ pc = "base"
    /\ LET block == block_dimensions(format)
           encoded == encode_rgba8(Max(surface.width, block[1]), Max(surface.height, block[2]), Max(surface.depth, block[3]), surface.data, format, quality, usize_bits)
       IN  IF encoded.tag = "Err"
           THEN /\ result' = encoded
                /\ pc' = "done"
                /\ UNCHANGED <<surface_data, mip_image, mipmap>>
           ELSE /\ surface_data' = <<encoded.val>>
                /\ mip_image' = surface.data
                /\ mipmap' = 1
                /\ pc' = "loop"
                /\ UNCHANGED result
    /\ UNCHANGED <<surface, format, quality, mipmaps, num_mipmaps>>
    /\ UNCHANGED <<dimVars, decVars, overflow_checks, usize_bits>>

\* lines 375-377 under overflow checks: mip_dimension(width, mipmap) panics on a
\* shift amount >= 32
EncMipShiftPanic ==
    /\ pc = "loop"
    /\ mipmap < num_mipmaps
    /\ mip_dimension_panics(mipmap, overflow_checks = "either")
    /\ result' = Panic("shift right with overflow")
    /\ pc' = "done"
    /\ UNCHANGED <<surface, format, quality, mipmaps, num_mipmaps, mipmap, mip_image, surface_data>>
    /\ UNCHANGED <<dimVars, decVars, overflow_checks, usize_bits>>

\* lines 370-428: one iteration of `for mipmap in 1..num_mipmaps`
EncMip ==
    /\ pc = "loop"
    /\ mipmap < num_mipmaps
    /\ overflow_checks' = IF shift_overflows(mipmap) THEN "off" ELSE overflow_checks
    /\ LET block == block_dimensions(format)
           m == padded_mip_dimensions(surface, block, mipmap)
           next == next_mip_image(surface, block, mipmaps, mipmap, mip_image, usize_bits)
       IN  IF next.panic
           THEN /\ result' = Panic(next.why)
                /\ pc' = "done"
                /\ UNCHANGED <<mip_image, surface_data, mipmap>>
           ELSE LET mip_data == encode_rgba8(m[1], m[2], m[3], next.image, format, quality, usize_bits)
                IN  /\ mip_image' = next.image
                    /\ IF mip_data.tag = "Err"
                       THEN /\ result' = mip_data
                            /\ pc' = "done"
                            /\ UNCHANGED <<surface_data, mipmap>>
                       ELSE /\ surface_data' = Append(surface_data, mip_data.val)
                            /\ mipmap' = mipmap + 1
                            /\ UNCHANGED <<result, pc>>
    /\ UNCHANGED <<surface, format, quality, mipmaps, num_mipmaps>>
    /\ UNCHANGED <<dimVars, decVars, usize_bits>>

\* lines 430-438: Ok(Surface { width, height, depth, layers: 1, mipmaps: num_mipmaps, .. })
EncReturn ==
    /\ pc = "loop"
    /\ mipmap >= num_mipmaps
    /\ result' = [tag |-> "Ok", width |-> surface.width, height |-> surface.height, depth |-> surface.depth,
                  layers |-> 1, mipmaps |-> num_mipmaps, image_format |-> format, data |-> surface_data]
    /\ pc' = "done"
    /\ UNCHANGED <<surface, format, quality, mipmaps, num_mipmaps, mipmap, mip_image, surface_data>>
    /\ UNCHANGED <<dimVars, decVars, overflow_checks, usize_bits>>

-----------------------------------------------------------------------------
(* decode_surface_rgba8 *)

\* the arguments of the calculate_offset call of the loop body, for level (l, m) of s
dec_offset_panics(s, l, m, checks, bits) ==
    calculate_offset_panics(l, m, <<s.width, s.height, s.depth>>, block_dimensions(s.image_format), block_size_in_bytes(s.image_format), s.mipmaps, checks, bits)

dec_offset(s, l, m, bits) ==
    calculate_offset(l, m, <<s.width, s.height, s.depth>>, block_dimensions(s.image_format), block_size_in_bytes(s.image_format), s.mipmaps, bits)

\* a plausible slip: the loops nested the other way round (mipmap outer, layer inner)
dec_advance_mip_major(s, l, m) == IF l + 1 < s.layers THEN <<l + 1, m>> ELSE <<IF m + 1 < s.mipmaps THEN 0 ELSE s.layers, m + 1>>

\* the (layer, mipmap) after (l, m): `for layer in 0..layers { for mipmap in 0..mipmaps`
dec_advance(s, l, m) == IF m + 1 < s.mipmaps THEN <<l, m + 1>> ELSE <<l + 1, 0>>

\* lines 260-267: calculate_offset panics (a shift overflow under overflow checks,
\* the unwrap of an overflowed size)
DecOffsetPanic ==
    /\ dec_pc = "loop"
    /\ layer < dec_surface.layers /\ dec_mipmap < dec_surface.mipmaps
    /\ dec_offset_panics(dec_surface, layer, dec_mipmap, overflow_checks = "either", usize_bits)
    /\ dec_result' = Panic("calculate_offset")
    /\ dec_pc' = "done"
    /\ UNCHANGED <<dec_surface, layer, dec_mipmap, combined_surface_data>>
    /\ UNCHANGED <<dimVars, encVars, overflow_checks, usize_bits>>

\* lines 258-279: one iteration of the loops over layer and mipmap
DecLevel ==
    /\ dec_pc = "loop"
    /\ layer < dec_surface.layers /\ dec_mipmap < dec_surface.mipmaps
    /\ ~dec_offset_panics(dec_surface, layer, dec_mipmap, FALSE, usize_bits)
    /\ overflow_checks' = IF dec_offset_panics(dec_surface, layer, dec_mipmap, TRUE, usize_bits) THEN "off" ELSE overflow_checks
    /\ LET offset == dec_offset(dec_surface, layer, dec_mipmap, usize_bits)
           dims == mip_dimensions(<<dec_surface.width, dec_surface.height, dec_surface.depth>>, dec_mipmap)
       IN  IF offset > dec_surface.len
           THEN \* &data.as_ref()[offset..] with offset beyond the end
                /\ dec_result' = Panic("slice start index out of range")
                /\ dec_pc' = "done"
                /\ UNCHANGED <<layer, dec_mipmap, combined_surface_data>>
           ELSE LET decoded == decode_data_rgba8(dims[1], dims[2], dims[3], dec_surface.image_format, dec_surface.len - offset, usize_bits)
                IN  IF decoded.tag = "Err"
                    THEN /\ dec_result' = decoded
                         /\ dec_pc' = "done"
                         /\ UNCHANGED <<layer, dec_mipmap, combined_surface_data>>
                    ELSE /\ combined_surface_data' = Append(combined_surface_data, [layer |-> layer, mipmap |-> dec_mipmap, offset |-> offset, width |-> dims[1], height |-> dims[2], depth |-> dims[3], len |-> decoded.val.len])
                         /\ layer' = dec_advance(dec_surface, layer, dec_mipmap)[1]
                         /\ dec_mipmap' = dec_advance(dec_surface, layer, dec_mipmap)[2]
                         /\ UNCHANGED <<dec_result, dec_pc>>
    /\ UNCHANGED dec_surface
    /\ UNCHANGED <<dimVars, encVars, usize_bits>>

\* lines 282-289: Ok(SurfaceRgba8 { width, height, depth, layers, mipmaps, data })
DecReturn ==
    /\ dec_pc = "loop"
    /\ ~(layer < dec_surface.layers /\ dec_mipmap < dec_surface.mipmaps)
    /\ dec_result' = [tag |-> "Ok", width |-> dec_surface.width, height |-> dec_surface.height, depth |-> dec_surface.depth,
                      layers |-> dec_surface.layers, mipmaps |-> dec_surface.mipmaps, data |-> combined_surface_data]
    /\ dec_pc' = "done"
    /\ UNCHANGED <<dec_surface, layer, dec_mipmap, combined_surface_data>>
    /\ UNCHANGED <<dimVars, encVars, overflow_checks, usize_bits>>

-----------------------------------------------------------------------------
(* Inputs *)

\* the 32-bit dimensions the pure functions are called on (below 2^31)
DimSamples ==
    (0..MaxProbe) \cup {2^k : k \in 0..30} \cup {2^k - 1 : k \in 1..30}
                  \cup {2^k + 1 : k \in 1..29} \cup {(2^30 - 1) + 2^30}

\* byte i of a caller's RGBA8 buffer: every byte differs from its neighbours
PixelByte(i) == (i * 37 + 11) % 256

PixelBuffer(len) == [i \in 1..len |-> PixelByte(i)]

\* the length of a tightly packed RGBA8 buffer of one layer and `count` levels
RgbaChainLen(w, h, d, count) ==
    SumSeq([i \in 1..count |-> mip_dimension(w, i - 1) * mip_dimension(h, i - 1) * mip_dimension(d, i - 1) * 4])

\* buffer lengths around the base level and around the declared chain
EncDataLens(w, h, d, declared) ==
    {n \in {0, (w * h * d * 4) - 4, w * h * d * 4, (w * h * d * 4) + 8,
            RgbaChainLen(w, h, d, declared) - 4, RgbaChainLen(w, h, d, declared)} : n >= 0}

EncFormats == {"R8Unorm", "R8G8B8A8Unorm", "R32G32B32A32Float", "BC1Unorm", "BC2Unorm", "BC7Srgb"}

Qualities == {"Fast", "Normal", "Slow"}

Policies ==
    {Disabled, FromSurface, GeneratedAutomatic} \cup {GeneratedExact(n) : n \in (0..MaxExact) \cup {U32Bits + 1}}

\* only Disabled and FromSurface are drawn with surfaces declaring other than one level:
\* the generating policies never read the declared count
DeclaredCounts(policy) == IF policy.kind \in {"Disabled", "FromSurface"} THEN 0..MaxDeclared ELSE {1}

IdleDim == arg = [dim |-> 0, level |-> 0, checks |-> FALSE] /\ ret = Pending

IdleEnc ==
    /\ surface = [width |-> 0, height |-> 0, depth |-> 0, layers |-> 0, mipmaps |-> 0, data |-> <<>>]
    /\ format = "R8Unorm"
    /\ quality = "Fast"
    /\ mipmaps = Disabled
    /\ pc = "idle"
    /\ num_mipmaps = 0
    /\ mipmap = 0
    /\ mip_image = <<>>
    /\ surface_data = <<>>
    /\ result = Pending

IdleDec ==
    /\ dec_surface = [width |-> 0, height |-> 0, depth |-> 0, layers |-> 0, mipmaps |-> 0, image_format |-> "R8Unorm", len |-> 0]
    /\ dec_pc = "idle"
    /\ layer = 0
    /\ dec_mipmap = 0
    /\ combined_surface_data = <<>>
    /\ dec_result = Pending

-----------------------------------------------------------------------------
(* SpecDim: mip_dimension and max_mipmap_count called on 32-bit inputs *)

InitDim ==
    /\ arg \in [dim : DimSamples, level : 0..MaxLevel, checks : BOOLEAN]
    /\ ret = Pending
    /\ IdleEnc /\ IdleDec
    /\ overflow_checks = "either"
    /\ usize_bits = 64

CallMipDimension ==
    /\ ret = Pending
    /\ ret' = IF mip_dimension_panics(arg.level, arg.checks)
              THEN [tag |-> "mip_dimension", panic |-> TRUE, val |-> 0]
              ELSE [tag |-> "mip_dimension", panic |-> FALSE, val |-> mip_dimension(arg.dim, arg.level)]
    /\ UNCHANGED <<arg, encVars, decVars, overflow_checks, usize_bits>>

CallMaxMipmapCount ==
    /\ ret = Pending
    /\ ret' = [tag |-> "max_mipmap_count", panic |-> FALSE, val |-> max_mipmap_count(arg.dim)]
    /\ UNCHANGED <<arg, encVars, decVars, overflow_checks, usize_bits>>

NextDim == CallMipDimension \/ CallMaxMipmapCount

SpecDim == InitDim /\ [][NextDim]_vars

-----------------------------------------------------------------------------
(* SpecEnc: one call of encode_surface_rgba8 *)

InitEnc ==
    /\ mipmaps \in Policies
    /\ format \in EncFormats
    /\ quality \in Qualities
    /\ \E w \in 0..MaxDim, h \in 0..MaxDim, d \in 0..MaxDepth, declared \in DeclaredCounts(mipmaps) :
         \E len \in EncDataLens(w, h, d, declared) :
            surface = [width |-> w, height |-> h, depth |-> d, layers |-> 1, mipmaps |-> declared, data |-> PixelBuffer(len)]
    /\ pc = "start"
    /\ num_mipmaps = 0
    /\ mipmap = 0
    /\ mip_image = <<>>
    /\ surface_data = <<>>
    /\ result = Pending
    /\ IdleDim /\ IdleDec
    /\ overflow_checks = "either"
    /\ usize_bits = 64

NextEnc == EncCheckDimensions \/ EncBase \/ EncMipShiftPanic \/ EncMip \/ EncReturn

SpecEnc == InitEnc /\ [][NextEnc]_vars

-----------------------------------------------------------------------------
(* SpecDec: one call of decode_surface_rgba8 *)

\* dim / 2^level, by halving
RECURSIVE Halve(_, _)
Halve(dim, level) == IF level = 0 \/ dim = 0 THEN dim ELSE Halve(dim \div 2, level - 1)

\* the dimension of a level as the specification defines it: max(dim >> level, 1)
LevelDim(dim, level) == Max(Halve(dim, level), 1)

\* ceil(a / b)
CeilDiv(a, b) == IF a % b = 0 THEN a \div b ELSE (a \div b) + 1

\* the block-rounded byte size of level m of a surface of format f
LevelBytes(w, h, d, f, m) ==
    CeilDiv(LevelDim(w, m), block_dimensions(f)[1]) * CeilDiv(LevelDim(h, m), block_dimensions(f)[2])
        * CeilDiv(LevelDim(d, m), block_dimensions(f)[3]) * block_size_in_bytes(f)

\* the packed-length invariant of Surface: layers x the sum of the levels' sizes
PackedLen(w, h, d, f, layers, count) == layers * SumSeq([i \in 1..count |-> LevelBytes(w, h, d, f, i - 1)])

DecFormats == {"R8G8B8A8Unorm", "BC1Unorm", "BC7Srgb"}

\* buffer lengths: empty, the packed length, one byte less, one level, one byte less than one layer
DecDataLens(w, h, d, f, layers, count) ==
    {n \in {0, PackedLen(w, h, d, f, layers, count) - 1, PackedLen(w, h, d, f, layers, count),
            LevelBytes(w, h, d, f, 0),
            PackedLen(w, h, d, f, 1, count) - 1} : n >= 0}

\* a surface declaring more levels than u32 has bits is drawn with at most one
\* layer: every layer repeats the same levels
DecLayerCounts(count) == IF count > U32Bits THEN 0..1 ELSE 0..MaxLayers

InitDec ==
    /\ \E w \in 0..MaxDecDim, h \in 0..MaxDecDim, d \in 0..MaxDepth, f \in DecFormats,
          count \in (0..MaxDeclared) \cup {U32Bits + 1} :
         \E layers \in DecLayerCounts(count) : \E len \in DecDataLens(w, h, d, f, layers, count) :
            dec_surface = [width |-> w, height |-> h, depth |-> d, layers |-> layers, mipmaps |-> count, image_format |-> f, len |-> len]
    /\ dec_pc = "loop"
    /\ layer = 0
    /\ dec_mipmap = 0
    /\ combined_surface_data = <<>>
    /\ dec_result = Pending
    /\ IdleDim /\ IdleEnc
    /\ overflow_checks = "either"
    /\ usize_bits = 64

NextDec == DecOffsetPanic \/ DecLevel \/ DecReturn

SpecDec == InitDec /\ [][NextDec]_vars

-----------------------------------------------------------------------------
(* SpecOff: mip_size called once, or calculate_offset called for the mip     *)
(* indices 0, 1, .. arg.mipmap of one layer of one geometry                  *)

\* (8,8,8) is the geometry of the repository's tests. (255,255,255) and (64,64,1)
\* on a 16-bit usize are to scale what u32::MAX dimensions are on a 64-bit one
\* (a dimension half as wide as the word); (65535,1,1) is what u32::MAX is on a
\* 32-bit one (a dimension as wide as the word).
OffDimensions == {<<8, 8, 8>>, <<0, 0, 0>>, <<1, 1, 1>>, <<5, 3, 2>>, <<4, 4, 1>>, <<64, 64, 1>>, <<255, 255, 255>>, <<65535, 1, 1>>}

OffBlocks == {<<1, 1, 1>>, <<4, 4, 1>>, <<4, 4, 4>>}

OffBlockBytes == {1, 8, 16}

UsizeWidths == {16, 64}

InitOff ==
    /\ arg \in [layer : 0..MaxOffLayer, mipmap : 0..(MaxOffMips + 1), dimensions : OffDimensions,
                block_dimensions : OffBlocks, block_size_in_bytes : OffBlockBytes,
                mipmaps_per_layer : (0..MaxOffMips) \cup {U32Bits + 1}]
    /\ ret = Pending
    /\ IdleEnc /\ IdleDec
    /\ overflow_checks = "either"
    /\ usize_bits \in UsizeWidths

\* the offsets calculate_offset has returned so far, for mips 0, 1, ..
OffsetsSoFar == IF ret = Pending THEN <<>> ELSE ret.val

\* the mip index of the next calculate_offset call
NextMip == Len(OffsetsSoFar)

CalculateOffsetCallable ==
    /\ ret = Pending \/ (ret.tag = "calculate_offset" /\ ~ret.panic)
    /\ NextMip <= arg.mipmap

\* calculate_offset(layer, NextMip, ..) panics
CallCalculateOffsetPanic ==
    /\ CalculateOffsetCallable
    /\ calculate_offset_panics(arg.layer, NextMip, arg.dimensions, arg.block_dimensions, arg.block_size_in_bytes, arg.mipmaps_per_layer, overflow_checks = "either", usize_bits)
    /\ ret' = [tag |-> "calculate_offset", panic |-> TRUE, val |-> OffsetsSoFar]
    /\ UNCHANGED <<arg, encVars, decVars, overflow_checks, usize_bits>>

\* calculate_offset(layer, NextMip, ..) returns
CallCalculateOffset ==
    /\ CalculateOffsetCallable
    /\ ~calculate_offset_panics(arg.layer, NextMip, arg.dimensions, arg.block_dimensions, arg.block_size_in_bytes, arg.mipmaps_per_layer, FALSE, usize_bits)
    /\ overflow_checks' = IF calculate_offset_panics(arg.layer, NextMip, arg.dimensions, arg.block_dimensions, arg.block_size_in_bytes, arg.mipmaps_per_layer, TRUE, usize_bits) THEN "off" ELSE overflow_checks
    /\ ret' = [tag |-> "calculate_offset", panic |-> FALSE,
               val |-> Append(OffsetsSoFar, calculate_offset(arg.layer, NextMip, arg.dimensions, arg.block_dimensions, arg.block_size_in_bytes, arg.mipmaps_per_layer, usize_bits))]
    /\ UNCHANGED <<arg, encVars, decVars, usize_bits>>

\* mip_size(width, height, depth, block_width, block_height, block_depth, block_size_in_bytes) panics
CallMipSizePanic ==
    /\ ret = Pending
    /\ mip_size_panics(arg.dimensions, arg.block_dimensions, overflow_checks = "either", usize_bits)
    /\ ret' = [tag |-> "mip_size", panic |-> TRUE, val |-> None]
    /\ UNCHANGED <<arg, encVars, decVars, overflow_checks, usize_bits>>

\* mip_size(..) returns
CallMipSize ==
    /\ ret = Pending
    /\ overflow_checks' = IF mip_size_panics(arg.dimensions, arg.block_dimensions, TRUE, usize_bits) THEN "off" ELSE overflow_checks
    /\ ret' = [tag |-> "mip_size", panic |-> FALSE, val |-> mip_size(arg.dimensions, arg.block_dimensions, arg.block_size_in_bytes, usize_bits)]
    /\ UNCHANGED <<arg, encVars, decVars, usize_bits>>

NextOff == CallCalculateOffsetPanic \/ CallCalculateOffset \/ CallMipSizePanic \/ CallMipSize

SpecOff == InitOff /\ [][NextOff]_vars

-----------------------------------------------------------------------------
(* SpecDown: one call of downsample_rgba8 *)

\* the minimums the encoder passes (the block dimensions) and those of the
\* repository's padding test
DownMinimums == {<<1, 1, 1>>, <<4, 4, 1>>, <<4, 4, 2>>}

\* RGBA8 test images of `len` bytes: "ramp" has every byte different from its
\* neighbours, "columns" alternates black and white pixels (the 4x4 and 3x3
\* tests), "slices" has a black first z slice and white ones after it (the
\* 2x2x2 tests)
DownImage(kind, width, height, len) ==
    [i \in 1..len |->
        CASE kind = "ramp" -> PixelByte(i)
          [] kind = "columns" -> IF ((i - 1) \div 4) % 2 = 0 THEN 0 ELSE 255
          [] kind = "slices" -> IF (i - 1) \div 4 < width * height THEN 0 ELSE 255]

\* buffer lengths: empty, one pixel short, exact, one pixel more
DownDataLens(width, height, depth) ==
    {n \in {0, (width * height * depth * 4) - 4, width * height * depth * 4, (width * height * depth * 4) + 4} : n >= 0}

InitDown ==
    /\ \E width \in 0..MaxDownDim, height \in 0..MaxDownDim, depth \in 0..MaxDownDepth, min \in DownMinimums, kind \in {"ramp", "columns", "slices"} :
         \E len \in DownDataLens(width, height, depth) :
            arg = [width |-> width, height |-> height, depth |-> depth,
                   min_width |-> min[1], min_height |-> min[2], min_depth |-> min[3],
                   data |-> DownImage(kind, width, height, len)]
    /\ ret = Pending
    /\ IdleEnc /\ IdleDec
    /\ overflow_checks = "either"
    /\ usize_bits = 64

\* downsample_rgba8 panics: data[index * 4 + c] out of range
CallDownsamplePanic ==
    /\ ret = Pending
    /\ downsample_rgba8_panics(arg.width, arg.height, arg.depth, arg.min_width, arg.min_height, arg.min_depth, arg.data)
    /\ ret' = [tag |-> "downsample_rgba8", panic |-> TRUE, val |-> <<>>]
    /\ UNCHANGED <<arg, encVars, decVars, overflow_checks, usize_bits>>

\* downsample_rgba8 returns new_data
CallDownsample ==
    /\ ret = Pending
    /\ ~downsample_rgba8_panics(arg.width, arg.height, arg.depth, arg.min_width, arg.min_height, arg.min_depth, arg.data)
    /\ ret' = [tag |-> "downsample_rgba8", panic |-> FALSE,
               val |-> downsample_rgba8(arg.width, arg.height, arg.depth, arg.min_width, arg.min_height, arg.min_depth, arg.data)]
    /\ UNCHANGED <<arg, encVars, decVars, overflow_checks, usize_bits>>

NextDown == CallDownsamplePanic \/ CallDownsample

SpecDown == InitDown /\ [][NextDown]_vars

-----------------------------------------------------------------------------
(* Properties of the layout functions (SpecDim) *)

\* floor(log2(d)) for d > 0: the k with 2^k <= d < 2^(k+1)
FloorLog2(d) == CHOOSE k \in 0..(U32Bits - 2) : Halve(d, k) = 1

\* C9: mip_dimension(dim, level) = max(floor(dim / 2^level), 1) for every 32-bit
\* dim and every level, levels >= 32 included: it never fails, is at least 1 and
\* stays 1 once it has reached 1.
C9_MipDimensionIsFlooredHalving ==
    ret.tag = "mip_dimension" =>
        /\ ~ret.panic
        /\ ret.val = Max(Halve(arg.dim, arg.level), 1)
        /\ ret.val >= 1
        /\ (arg.level >= U32Bits => ret.val = 1)

\* C10: max_mipmap_count(d) = floor(log2(d)) + 1 for d > 0 and 0 for d = 0; for
\* d > 0 it is the smallest count c with mip_dimension(d, c - 1) = 1.
C10_MaxMipmapCountIsLog2PlusOne ==
    ret.tag = "max_mipmap_count" =>
        /\ ret.val = (IF arg.dim = 0 THEN 0 ELSE FloorLog2(arg.dim) + 1)
        /\ arg.dim > 0 =>
            /\ ret.val >= 1
            /\ mip_dimension(arg.dim, ret.val - 1) = 1
            /\ \A c \in 1..(ret.val - 1) : mip_dimension(arg.dim, c - 1) /= 1

\* max_mipmap_count(12) has returned 4
C10_Witness == ret.tag = "max_mipmap_count" /\ arg.dim = 12 /\ ret.val = 4

-----------------------------------------------------------------------------
(* Properties of encode_surface_rgba8 (SpecEnc) *)

EncBlock == block_dimensions(format)

\* the formats that have an encoder (spec 4.1: one family is decode only)
Encodable == encode_codec(format) /= "Bc2"

Generating == mipmaps.kind \in {"Disabled", "GeneratedExact", "GeneratedAutomatic"}

\* the number of levels until every dimension has reached 1
LevelsUntilOne(x) == IF x = 0 THEN 0 ELSE FloorLog2(x) + 1

\* the byte length of a Surface buffer made of encoded levels
SurfaceLen(data) == SumSeq([i \in 1..Len(data) |-> data[i].len])

\* C1: whenever the base width is not a multiple of the block width or the base
\* height not a multiple of the block height, the call returns
\* NonIntegralDimensionsInBlocks{width, height, depth, block_width, block_height},
\* under every policy and whatever the length of the buffer, before anything is
\* encoded; in no other case (the depth is never a reason) does it return that error.
C1_NonIntegralDimensionsFirst ==
    pc \notin {"idle", "start"} =>
        LET bad == surface.width % EncBlock[1] /= 0 \/ surface.height % EncBlock[2] /= 0
            error == Err(NonIntegralDimensionsInBlocks(surface.width, surface.height, surface.depth, EncBlock[1], EncBlock[2]))
        IN  /\ bad => (pc = "done" /\ result = error /\ surface_data = <<>>)
            /\ (result.tag = "Err" /\ result.err.kind = "NonIntegralDimensionsInBlocks") => bad

\* the 3 x 5 x 2 surface with ample bytes against a (4, 4, 1) block format has
\* been refused with NonIntegralDimensionsInBlocks{3, 5, 2, 4, 4}
C1_Witness ==
    /\ pc = "done"
    /\ result = Err(NonIntegralDimensionsInBlocks(3, 5, 2, 4, 4))
    /\ Len(surface.data) >= 3 * 5 * 2 * 4

\* C2: for a base size whose width and height are multiples of the block size
\* and a buffer holding at least the base level, the call under a generating
\* policy succeeds and the buffer of the Surface it returns is as long as the sum
\* of the block-rounded sizes of the levels it reports. (Read in the claim's
\* favour: positive dimensions, a format that has an encoder, GeneratedExact(n)
\* with 1 <= n <= 32.)
C2_GeneratedSurfaceIsPacked ==
    (/\ pc = "done"
     /\ Generating /\ Encodable
     /\ (mipmaps.kind = "GeneratedExact" => (1 <= mipmaps.count /\ mipmaps.count <= U32Bits))
     /\ surface.width > 0 /\ surface.height > 0 /\ surface.depth > 0
     /\ surface.width % EncBlock[1] = 0 /\ surface.height % EncBlock[2] = 0
     /\ Len(surface.data) >= surface.width * surface.height * surface.depth * 4)
    => /\ result.tag = "Ok"
       /\ SurfaceLen(result.data) =
            SumSeq([i \in 1..result.mipmaps |-> LevelBytes(surface.width, surface.height, surface.depth, format, i - 1)])

\* the level count each policy resolves to
ResolvedCount ==
    CASE mipmaps.kind = "Disabled" -> 1
      [] mipmaps.kind = "FromSurface" -> surface.mipmaps
      [] mipmaps.kind = "GeneratedExact" -> mipmaps.count
      [] mipmaps.kind = "GeneratedAutomatic" -> LevelsUntilOne(Max(Max(surface.width, surface.height), surface.depth))

\* C3: the Surface returned reports the level count the policy resolves to
\* (Disabled 1, FromSurface the declared count, GeneratedExact(n) n,
\* GeneratedAutomatic the levels until every dimension reaches 1), holds exactly
\* that many encoded levels, and reports 1 layer and the base dimensions.
C3_ReportedCountIsEncodedCount ==
    (pc = "done" /\ result.tag = "Ok") =>
        /\ result.mipmaps = ResolvedCount
        /\ Len(result.data) = result.mipmaps
        /\ result.layers = 1
        /\ result.width = surface.width /\ result.height = surface.height /\ result.depth = surface.depth

\* what the call returns under Mipmaps::Disabled: the block check, then the base level alone
EncodeDisabled ==
    IF surface.width % EncBlock[1] /= 0 \/ surface.height % EncBlock[2] /= 0
    THEN Err(NonIntegralDimensionsInBlocks(surface.width, surface.height, surface.depth, EncBlock[1], EncBlock[2]))
    ELSE LET base == encode_rgba8(Max(surface.width, EncBlock[1]), Max(surface.height, EncBlock[2]), Max(surface.depth, EncBlock[3]), surface.data, format, quality, usize_bits)
         IN  IF base.tag = "Err" THEN base
             ELSE [tag |-> "Ok", width |-> surface.width, height |-> surface.height, depth |-> surface.depth,
                   layers |-> 1, mipmaps |-> 1, image_format |-> format, data |-> <<base.val>>]

\* the model's run under Disabled returns EncodeDisabled
DisabledRunIsEncodeDisabled == (pc = "done" /\ mipmaps = Disabled) => result = EncodeDisabled

\* C4: GeneratedExact(0) and GeneratedExact(1) return what Disabled returns on the
\* same surface, format and quality, field for field.
C4_ExactZeroOrOneIsDisabled ==
    (pc = "done" /\ mipmaps.kind = "GeneratedExact" /\ mipmaps.count <= 1) => result = EncodeDisabled

\* the caller's own slice of level m: the tightly packed RGBA8 levels of one layer
CallerSlice(m) ==
    SubSeq(surface.data, RgbaChainLen(surface.width, surface.height, surface.depth, m) + 1,
           RgbaChainLen(surface.width, surface.height, surface.depth, m + 1))

Range(f) == {f[i] : i \in DOMAIN f}

\* C5: under FromSurface an input that declares k levels and holds them all gives
\* a Surface of exactly k levels, each of its block-rounded size, whose pixels for
\* each level m >= 1 come from the caller's own level-m slice (zero padded); under
\* Disabled an input declaring several levels still gives the base level alone.
\* (Read in the claim's favour: positive block-multiple dimensions, k >= 1, a
\* format that has an encoder.)
C5_FromSurfaceKeepsCallerLevels ==
    (/\ pc = "done" /\ Encodable
     /\ surface.width > 0 /\ surface.height > 0 /\ surface.depth > 0
     /\ surface.width % EncBlock[1] = 0 /\ surface.height % EncBlock[2] = 0
     /\ surface.mipmaps >= 1
     /\ Len(surface.data) >= RgbaChainLen(surface.width, surface.height, surface.depth, surface.mipmaps))
    => /\ mipmaps = FromSurface =>
            /\ result.tag = "Ok"
            /\ result.mipmaps = surface.mipmaps
            /\ Len(result.data) = surface.mipmaps
            /\ \A m \in 1..(surface.mipmaps - 1) :
                /\ result.data[m + 1].len = LevelBytes(surface.width, surface.height, surface.depth, format, m)
                /\ \A i \in 1..Len(result.data[m + 1].pixels) :
                     result.data[m + 1].pixels[i] /= 0 => result.data[m + 1].pixels[i] \in Range(CallerSlice(m))
       /\ mipmaps = Disabled => (result.tag = "Ok" /\ result.mipmaps = 1 /\ Len(result.data) = 1)

\* C8: encode_surface_rgba8 never panics: every failure is a CompressSurfaceError value.
C8_EncodeNeverPanics == result.tag /= "Panic"

-----------------------------------------------------------------------------
(* Properties of decode_surface_rgba8 (SpecDec) *)

DecPacked ==
    PackedLen(dec_surface.width, dec_surface.height, dec_surface.depth, dec_surface.image_format, dec_surface.layers, dec_surface.mipmaps)

\* the RGBA8 length of the decoded surface: layers x the sum of the levels' pixels x 4
DecodedLen ==
    dec_surface.layers * SumSeq([i \in 1..dec_surface.mipmaps |->
        LevelDim(dec_surface.width, i - 1) * LevelDim(dec_surface.height, i - 1) * LevelDim(dec_surface.depth, i - 1) * 4])

\* C6: a Surface whose buffer has the packed length decodes to a SurfaceRgba8 of
\* the same dimensions, layer count and mip count, whose data are the decoded
\* levels in layer-major then mip-major order, layers x the sum over the levels of
\* max(width >> m, 1) x max(height >> m, 1) x max(depth >> m, 1) x 4 bytes long.
C6_PackedSurfaceDecodes ==
    (dec_pc = "done" /\ dec_surface.len = DecPacked) =>
        /\ dec_result.tag = "Ok"
        /\ dec_result.width = dec_surface.width /\ dec_result.height = dec_surface.height
        /\ dec_result.depth = dec_surface.depth
        /\ dec_result.layers = dec_surface.layers /\ dec_result.mipmaps = dec_surface.mipmaps
        /\ Len(dec_result.data) = dec_surface.layers * dec_surface.mipmaps
        /\ \A k \in 1..Len(dec_result.data) :
             /\ dec_result.data[k].layer = (k - 1) \div dec_surface.mipmaps
             /\ dec_result.data[k].mipmap = (k - 1) % dec_surface.mipmaps
        /\ SurfaceLen(dec_result.data) = DecodedLen

\* C7: a buffer too short for some declared (layer, mipmap) level makes the call
\* return the NotEnoughData error, with no partial output and without a panic.
C7_ShortBufferIsNotEnoughData ==
    (/\ dec_pc = "done"
     /\ dec_surface.layers >= 1 /\ dec_surface.mipmaps >= 1
     /\ dec_surface.len < DecPacked)
    => (dec_result.tag = "Err" /\ dec_result.err.kind = "NotEnoughData")

-----------------------------------------------------------------------------
(* Properties of calculate_offset and mip_size (SpecOff) *)

\* the block-rounded byte size of level i of the geometry of arg, as the
\* specification defines it
OffLevelBytes(i) ==
    CeilDiv(LevelDim(arg.dimensions[1], i), arg.block_dimensions[1]) * CeilDiv(LevelDim(arg.dimensions[2], i), arg.block_dimensions[2])
        * CeilDiv(LevelDim(arg.dimensions[3], i), arg.block_dimensions[3]) * arg.block_size_in_bytes

\* the per-layer total: the sum of the sizes of levels 0..mipmaps_per_layer
OffLayerBytes == SumSeq([i \in 1..arg.mipmaps_per_layer |-> OffLevelBytes(i - 1)])

\* layer x per-layer total + the sizes of levels 0..m
OffExpected(m) == (arg.layer * OffLayerBytes) + SumSeq([i \in 1..m |-> OffLevelBytes(i - 1)])

\* C11: for every layer, every mip < mipmaps_per_layer and every geometry,
\* calculate_offset returns layer x (the sum of the block-rounded sizes of all
\* levels) + (the sum of the block-rounded sizes of levels 0..mip).
C11_OffsetIsLayerTotalPlusPrefix ==
    ret.tag = "calculate_offset" =>
        /\ ret.panic => NextMip >= arg.mipmaps_per_layer
        /\ \A k \in 1..Len(ret.val) : k - 1 < arg.mipmaps_per_layer => ret.val[k] = OffExpected(k - 1)

\* C16: calculate_offset with a mip index that is not below mipmaps_per_layer
\* yields a typed bounds error: it returns no offset for a level that does not
\* exist and performs no out-of-range slice index.
C16_OutOfRangeMipIsTypedError ==
    ret.tag = "calculate_offset" =>
        /\ \A k \in 1..Len(ret.val) : k - 1 < arg.mipmaps_per_layer
        /\ ret.panic => NextMip < arg.mipmaps_per_layer

\* C17: with a positive block byte size the offsets of one layer are strictly
\* increasing in mip over 0..mipmaps_per_layer, and the offset at layer k, mip 0
\* is k times the per-layer total size.
C17_OffsetsIncreaseAndLayersAreMultiples ==
    (ret.tag = "calculate_offset" /\ arg.block_size_in_bytes > 0) =>
        /\ \A j, k \in 1..Len(ret.val) : (j < k /\ k - 1 < arg.mipmaps_per_layer) => ret.val[j] < ret.val[k]
        /\ Len(ret.val) >= 1 => ret.val[1] = arg.layer * OffLayerBytes

\* ceil(width / block_w) x ceil(height / block_h) x ceil(depth / block_d) x block_bytes
\* of the dimensions of arg
OffProduct ==
    CeilDiv(arg.dimensions[1], arg.block_dimensions[1]) * CeilDiv(arg.dimensions[2], arg.block_dimensions[2])
        * CeilDiv(arg.dimensions[3], arg.block_dimensions[3]) * arg.block_size_in_bytes

\* some size or sum of the offset calculation does not fit usize
OffOverflows ==
    \/ \E i \in 1..arg.mipmaps_per_layer : ~usize_fits(OffLevelBytes(i - 1), usize_bits)
    \/ ~usize_fits(arg.layer * OffLayerBytes + OffLayerBytes, usize_bits)

\* C19: mip_size returns the product of the rounded-up block counts and the block
\* byte size when it fits the machine word and None when it does not, with no
\* step wrapping or failing; an overflow reaching calculate_offset is neither a
\* panic nor a wrapped offset.
C19_MipSizeIsCheckedProduct ==
    /\ ret.tag = "mip_size" =>
          /\ ~ret.panic
          /\ ret.val = (IF usize_fits(OffProduct, usize_bits) THEN Some(OffProduct) ELSE None)
    /\ (ret.tag = "calculate_offset" /\ arg.mipmaps_per_layer <= U32Bits /\ OffOverflows) =>
          /\ ~(ret.panic /\ NextMip <= arg.mipmaps_per_layer)
          /\ \A k \in 1..Len(ret.val) : k - 1 <= arg.mipmaps_per_layer => ret.val[k] = OffExpected(k - 1)

-----------------------------------------------------------------------------
(* Properties of the packed layout walked by decode_surface_rgba8 (SpecDec) *)

\* the byte size of the region of one decoded level: the block-rounded size of
\* its dimensions in the surface's format
RegionSize(e) ==
    CeilDiv(e.width, block_dimensions(dec_surface.image_format)[1]) * CeilDiv(e.height, block_dimensions(dec_surface.image_format)[2])
        * CeilDiv(e.depth, block_dimensions(dec_surface.image_format)[3]) * block_size_in_bytes(dec_surface.image_format)

\* where the region of a decoded level ends
RegionEnd(e) == e.offset + RegionSize(e)

\* the per-layer size: the sizes of the regions of layer 0
LayerRegionBytes == SumSeq([k \in 1..dec_surface.mipmaps |-> RegionSize(combined_surface_data[k])])

\* C18: the regions [offset, offset + size) of the levels decode_surface_rgba8
\* visits are pairwise disjoint and tile the buffer: visited layer-major then
\* mip-major, the first starts at 0, each starts where the previous one ends, and
\* the last ends at layers x the per-layer size.
C18_RegionsTileTheBuffer ==
    /\ \A k \in 1..Len(combined_surface_data) :
          /\ combined_surface_data[k].layer = (k - 1) \div dec_surface.mipmaps
          /\ combined_surface_data[k].mipmap = (k - 1) % dec_surface.mipmaps
          /\ combined_surface_data[k].offset = (IF k = 1 THEN 0 ELSE RegionEnd(combined_surface_data[k - 1]))
          /\ \A j \in 1..(k - 1) : RegionEnd(combined_surface_data[j]) <= combined_surface_data[k].offset
    /\ (dec_result.tag = "Ok" /\ Len(combined_surface_data) > 0) =>
          /\ Len(combined_surface_data) = dec_surface.layers * dec_surface.mipmaps
          /\ RegionEnd(combined_surface_data[Len(combined_surface_data)]) = dec_surface.layers * LayerRegionBytes
          /\ RegionEnd(combined_surface_data[Len(combined_surface_data)]) <= dec_surface.len

\* a surface of 2 layers and 3 levels has been decoded: 6 regions
C18_Witness ==
    /\ dec_result.tag = "Ok"
    /\ dec_surface.layers = 2 /\ dec_surface.mipmaps = 3
    /\ dec_surface.width = 4 /\ dec_surface.height = 2 /\ dec_surface.depth = 2
    /\ dec_surface.image_format = "R8G8B8A8Unorm"
    /\ Len(combined_surface_data) = 6
    /\ combined_surface_data[4].offset = 76

-----------------------------------------------------------------------------
(* Properties of downsample_rgba8 (SpecDown) *)

RECURSIVE SetSum(_, _)
\* the sum of f over the finite set S
SetSum(S, f) == IF S = {} THEN 0 ELSE LET e == CHOOSE e \in S : TRUE IN f[e] + SetSum(S \ {e}, f)

\* the source voxels of the 2x2x2 neighbourhood of destination voxel (x, y, z)
\* that lie inside the source extent of arg
SourceVoxels(x, y, z) ==
    {v \in {2 * x, (2 * x) + 1} \X {2 * y, (2 * y) + 1} \X {2 * z, (2 * z) + 1} :
        v[1] < arg.width /\ v[2] < arg.height /\ v[3] < arg.depth}

\* channel c of source voxel v of arg.data
SourceChannel(v, c) == arg.data[((((v[3] * arg.width * arg.height) + (v[2] * arg.width)) + v[1]) * 4) + c + 1]

\* the output dimensions of the call: max(dim / 2, minimum)
OutWidth == Max(arg.width \div 2, arg.min_width)
OutHeight == Max(arg.height \div 2, arg.min_height)
OutDepth == Max(arg.depth \div 2, arg.min_depth)

\* the destination voxels of the call
OutVoxels == (0..(OutWidth - 1)) \X (0..(OutHeight - 1)) \X (0..(OutDepth - 1))

\* channel c of destination voxel d of the returned buffer
OutChannel(d, c) == ret.val[((((d[3] * OutWidth * OutHeight) + (d[2] * OutWidth)) + d[1]) * 4) + c + 1]

DownsampleReturned == ret.tag = "downsample_rgba8" /\ ~ret.panic

\* C12: for every destination voxel with a source voxel of its 2x2x2
\* neighbourhood inside the source extent, each channel of the result is the mean
\* of that channel over exactly the in-extent source voxels, truncated.
C12_VoxelIsTruncatedMeanOfInExtentSources ==
    DownsampleReturned =>
        \A d \in OutVoxels : \A c \in 0..3 :
            LET S == SourceVoxels(d[1], d[2], d[3])
            IN  S /= {} => OutChannel(d, c) = SetSum(S, [v \in S |-> SourceChannel(v, c)]) \div Cardinality(S)

\* the 4x4 image of alternating black and white pixels has become a uniform 127
\* 2x2 image
C12_Witness ==
    /\ DownsampleReturned
    /\ arg.width = 4 /\ arg.height = 4 /\ arg.depth = 1
    /\ arg.min_width = 1 /\ arg.min_height = 1 /\ arg.min_depth = 1
    /\ arg.data = DownImage("columns", 4, 4, 64)
    /\ ret.val = [i \in 1..16 |-> 127]

\* C13: downsample_rgba8 never fails on an empty or undersized input: for a
\* buffer shorter than width x height x depth x 4 bytes, and for the empty buffer
\* with zero dimensions, it returns a zero-filled buffer of the output size.
C13_UndersizedInputGivesZeros ==
    (ret.tag = "downsample_rgba8" /\ (Len(arg.data) < arg.width * arg.height * arg.depth * 4 \/ Len(arg.data) = 0)) =>
        /\ ~ret.panic
        /\ ret.val = [i \in 1..(OutWidth * OutHeight * OutDepth * 4) |-> 0]

\* C20: the returned buffer has max(width / 2, min_w) x max(height / 2, min_h) x
\* max(depth / 2, min_d) x 4 bytes, and every destination voxel with no source
\* voxel of its neighbourhood inside the source extent is 0 in all 4 channels.
C20_OutputSizeAndZeroPadding ==
    DownsampleReturned =>
        /\ Len(ret.val) = OutWidth * OutHeight * OutDepth * 4
        /\ \A d \in OutVoxels : SourceVoxels(d[1], d[2], d[3]) = {} => \A c \in 0..3 : OutChannel(d, c) = 0

\* the 2x2x2 image with minimum 4x4x2 has become one averaged pixel followed by zeros
C20_Witness ==
    /\ DownsampleReturned
    /\ arg.width = 2 /\ arg.height = 2 /\ arg.depth = 2
    /\ arg.min_width = 4 /\ arg.min_height = 4 /\ arg.min_depth = 2
    /\ arg.data = DownImage("slices", 2, 2, 32)
    /\ ret.val = [i \in 1..128 |-> IF i <= 4 THEN 127 ELSE 0]

-----------------------------------------------------------------------------
(* Properties of the mip loop of encode_surface_rgba8 (SpecEnc) *)

\* the block-clamped dimensions of level n: max(dim >> n, block)
ClampedDims(n) ==
    <<Max(LevelDim(surface.width, n), EncBlock[1]), Max(LevelDim(surface.height, n), EncBlock[2]), Max(LevelDim(surface.depth, n), EncBlock[3])>>

RECURSIVE BoxFilterChain(_)
\* the pixel buffer of level n of the generated chain: the base image for n = 0,
\* and for n >= 1 the downsample of the buffer of level n - 1, with the
\* dimensions of level n - 1 as the source extent
BoxFilterChain(n) ==
    IF n = 0 THEN surface.data
    ELSE downsample_rgba8(ClampedDims(n - 1)[1], ClampedDims(n - 1)[2], ClampedDims(n - 1)[3], EncBlock[1], EncBlock[2], EncBlock[3], BoxFilterChain(n - 1))

\* C14: under every policy other than FromSurface the pixel buffer encoded for
\* level n >= 1 is the box-filter downsample of the pixel buffer of level n - 1,
\* taken with the dimensions of level n - 1 as the source extent, and has the
\* block-clamped dimensions of level n. (While the loop runs, mip_image is the
\* buffer of level mipmap - 1.)
C14_LevelIsDownsampleOfPrevious ==
    (pc = "loop" /\ Generating /\ mipmap >= 2 /\ mipmap <= U32Bits) =>
        /\ Len(mip_image) = ClampedDims(mipmap - 1)[1] * ClampedDims(mipmap - 1)[2] * ClampedDims(mipmap - 1)[3] * 4
        /\ mip_image = BoxFilterChain(mipmap - 1)

\* the true dimensions of the caller's level m
TrueDims(m) == <<LevelDim(surface.width, m), LevelDim(surface.height, m), LevelDim(surface.depth, m)>>

\* the caller's level m copied into the top-left corner of a zeroed buffer of the
\* block-clamped dimensions, row by row
TopLeftPadded(m) ==
    LET t == ClampedDims(m)
        sd == TrueDims(m)
        slice == CallerSlice(m)
    IN  [p \in 1..(t[1] * t[2] * t[3] * 4) |->
            LET pixel == (p - 1) \div 4
                c == (p - 1) % 4
                x == pixel % t[1]
                y == (pixel \div t[1]) % t[2]
                z == pixel \div (t[1] * t[2])
            IN  IF x < sd[1] /\ y < sd[2] /\ z < sd[3]
                THEN slice[((((z * sd[1] * sd[2]) + (y * sd[1])) + x) * 4) + c + 1]
                ELSE 0]

\* the caller's level m is smaller than its block-padded target
SliceSmallerThanTarget(m) ==
    TrueDims(m)[1] * TrueDims(m)[2] * TrueDims(m)[3] < ClampedDims(m)[1] * ClampedDims(m)[2] * ClampedDims(m)[3]

\* the surface holds every level it declares
HoldsDeclaredLevels == Len(surface.data) >= RgbaChainLen(surface.width, surface.height, surface.depth, surface.mipmaps)

\* C15: under FromSurface, when the caller's slice of a level is smaller than the
\* block-padded target, the buffer encoded for the level has the target size,
\* holds the caller's pixels at the same (x, y, z) and zeros everywhere else, and
\* the copy reads nothing outside the caller's slice.
C15_PaddingIsTopLeftAnchoredCopy ==
    (mipmaps = FromSurface /\ HoldsDeclaredLevels /\ surface.width > 0 /\ surface.height > 0 /\ surface.depth > 0) =>
        /\ result /= Panic("index out of bounds")
        /\ (pc = "loop" /\ mipmap >= 2 /\ SliceSmallerThanTarget(mipmap - 1)) => mip_image = TopLeftPadded(mipmap - 1)

====
